---- MODULE Spec2Model ----
(***************************************************************************)
(* Model of the devfile registry index generator library                   *)
(* (index/generator/library): the remote stack fetcher of util.go          *)
(* (downloadRemoteStack, gitSubDir, StartSignalWatcher, cleanDir) and the  *)
(* index builder (GenerateIndexStruct and the functions it calls).         *)
(*                                                                         *)
(* Strings that the code inspects character by character (git revisions,   *)
(* reference names) are sequences of one-character strings; all other      *)
(* strings are TLA+ strings.                                               *)
(***************************************************************************)
EXTENDS Integers, Sequences, FiniteSets, TLC

(***************************************************************************)
(* Bounds of the model.                                                    *)
(***************************************************************************)
\* downloadRemoteStack calls made by the process, one after the other
MaxCalls == 2
\* entries of <staging>/<subDir> (and of a repository root) that a clone yields
MaxEntries == 2
\* termination signals delivered to the process
MaxSignals == 1

Calls == 1..MaxCalls

(***************************************************************************)
(* The remote stack fetcher: data.                                         *)
(***************************************************************************)
HexChars ==
    {"0", "1", "2", "3", "4", "5", "6", "7", "8", "9",
     "a", "b", "c", "d", "e", "f", "A", "B", "C", "D", "E", "F"}

\* a commit hash, a string of the length of a hash that is not hexadecimal,
\* a branch or tag name, a short hexadecimal name, and no revision
HashRevision == [i \in 1..40 |-> IF i % 2 = 0 THEN "a" ELSE "7"]
LongNameRevision == [i \in 1..40 |-> IF i = 40 THEN "z" ELSE "a"]
Revisions ==
    {<<>>, <<"m", "a", "i", "n">>, <<"a", "b", "c">>, HashRevision, LongNameRevision}

\* plumbing.IsHash: forty hexadecimal digits
IsHash(s) == Len(s) = 40 /\ \A i \in 1..Len(s) : s[i] \in HexChars

\* plumbing.NewBranchReferenceName / NewTagReferenceName: prefix + name
NewBranchReferenceName(name) == <<"refs/heads/">> \o name
NewTagReferenceName(name) == <<"refs/tags/">> \o name

\* the destinations a caller extracts into, and the entry names of a repository
Dests == {"d1", "d2"}
Names == {"devfile.yaml", "a", "b"}

\* cleanDir's leaveBehindFiles in gitSubDir
leaveBehindFiles == {"devfile.yaml"}

\* the sequences over S without repetition, of length at most n: what Readdir
\* can return for a directory of at most n entries named in S
DistinctSeqs(S, n) ==
    UNION {{s \in [1..k -> S] : \A i, j \in 1..k : i # j => s[i] # s[j]} : k \in 0..n}

Range(s) == {s[i] : i \in 1..Len(s)}

VARIABLES
    call,             \* number of downloadRemoteStack calls started so far
    pc,               \* position of the main goroutine
    git,              \* the schema.Git of the current call
    destinationPath,  \* the path argument of the current call
    revision,         \* downloadRemoteStack's local revision
    refName,          \* cloneOptions.ReferenceName
    attempts,         \* the PlainClone calls of the current call, with their outcomes
    err,              \* what the last call returned: "none", "nil" or "error"
    staging,          \* per call: its temporary directory, "absent", "present", "removed"
    repo,             \* the entries the clone of the current call put on disk
    outputDirFiles,   \* gitSubDir: the Readdir result
    outputIndex,      \* gitSubDir: the copy loop's index
    fs,               \* per destination: its top-level entries, <<name, writer>>,
                      \* writer 0 for an entry that was there before the process
    watcher,          \* per call: the StartSignalWatcher goroutine gitSubDir started
    signals,          \* termination signals delivered so far
    exited,           \* "no", "killed" (default signal action) or "exit1" (os.Exit(1))
    interrupted,      \* the calls whose copy loop had copied a proper, non-empty
                      \* subset of its entries when a signal was delivered
    settled           \* <<c, n>>: call c had returned nil from gitSubDir and its
                      \* entry n was in its destination when a signal was delivered

fetchVars ==
    <<call, pc, git, destinationPath, revision, refName, attempts, err, staging, repo,
      outputDirFiles, outputIndex, fs, watcher, signals, exited, interrupted, settled>>

VARIABLES
    force,           \* the force argument
    ipc,             \* position of the build: "start", "stackLoop", "versions",
                     \* "append", "extraLoop", "done"
    stackDir,        \* parseDevfileRegistry: the ReadDir of <registry>/stacks
    di,              \* parseDevfileRegistry: index of the stack loop
    stackYaml,       \* the stack.yaml of the current stack directory, as read
    devfiles,        \* the metadata files read for the current stack, per version
    indexComponent,  \* parseDevfileRegistry: the entry being built
    vj,              \* parseDevfileRegistry: index of the version loop
    index,           \* the index of parseDevfileRegistry / GenerateIndexStruct
    extra,           \* parseExtraDevfileEntries: the entries of the file, typed
    validateSamples, \* parseExtraDevfileEntries: <registry>/samples exists
    ek,              \* parseExtraDevfileEntries: index of the entry loop
    extraIndex,      \* parseExtraDevfileEntries: its index
    printed,         \* the errors printed to the console
    ret              \* what GenerateIndexStruct returned

indexVars ==
    <<force, ipc, stackDir, di, stackYaml, devfiles, indexComponent, vj, index,
      extra, validateSamples, ek, extraIndex, printed, ret>>

NoWatcher == [pc |-> "none", chan |-> FALSE, dest |-> "d1", todo |-> {}]

InitFetch ==
    /\ call = 0
    /\ pc = "idle"
    /\ git = [Revision |-> <<>>, SubDir |-> ""]
    /\ destinationPath = "d1"
    /\ revision = <<>>
    /\ refName = <<>>
    /\ attempts = <<>>
    /\ err = "none"
    /\ staging = [c \in Calls |-> "absent"]
    /\ repo = <<>>
    /\ outputDirFiles = <<>>
    /\ outputIndex = 1
    /\ \E pre \in {{}, {<<"devfile.yaml", 0>>}} :
           fs = [d \in Dests |-> IF d = "d1" THEN pre ELSE {}]
    /\ watcher = [c \in Calls |-> NoWatcher]
    /\ signals = 0
    /\ exited = "no"
    /\ interrupted = {}
    /\ settled = {}

(***************************************************************************)
(* downloadRemoteStack.                                                    *)
(***************************************************************************)
\* lines 52-61: the revision the function works with
ResolveRevision(rev) == IF IsHash(rev) THEN <<>> ELSE rev

\* lines 53-66: the reference name handed to the first clone
ResolveRefName(rev) ==
    IF ResolveRevision(rev) # <<>>
    THEN NewBranchReferenceName(ResolveRevision(rev))
    ELSE rev

\* a retry after any failure of the first clone
ShouldRetry_AnyFailure(outcome, rev) == outcome # "ok" /\ rev # <<>>

\* line 93: whether a failed first clone is tried again as a tag
ShouldRetry(outcome, rev) == outcome = "nomatch" /\ rev # <<>>

\* what a directory holds after entries were written into it by call c
WriteEntries(dir, entries, c) ==
    {e \in dir : e[1] \notin Range(entries)} \cup {<<n, c>> : n \in Range(entries)}

Return(e) ==
    /\ err' = e
    /\ pc' = "idle"

\* lines 48-85: a call starts, resolves the reference and, with a subDir, makes
\* the temporary directory (ok = FALSE: ioutil.TempDir fails)
DownloadStart(g, d, ok) ==
    /\ exited = "no"
    /\ pc = "idle"
    /\ call < MaxCalls
    /\ call' = call + 1
    /\ git' = g
    /\ destinationPath' = d
    /\ revision' = ResolveRevision(g.Revision)
    /\ refName' = ResolveRefName(g.Revision)
    /\ attempts' = <<>>
    /\ repo' = <<>>
    /\ outputDirFiles' = <<>>
    /\ outputIndex' = 1
    /\ IF g.SubDir # ""
       THEN IF ok
            THEN /\ staging' = [staging EXCEPT ![call + 1] = "present"]
                 /\ pc' = "clone1"
                 /\ err' = "none"
            ELSE /\ Return("error")
                 /\ UNCHANGED staging
       ELSE /\ pc' = "clone1"
            /\ err' = "none"
            /\ UNCHANGED staging
    /\ UNCHANGED <<fs, watcher, signals, exited, interrupted, settled>>
    /\ UNCHANGED indexVars

\* a successful PlainClone into path: the destination itself without a subDir,
\* the temporary directory with one
Cloned(entries) ==
    /\ repo' = entries
    /\ fs' = IF git.SubDir = ""
             THEN [fs EXCEPT ![destinationPath] = WriteEntries(@, entries, call)]
             ELSE fs
    /\ pc' = "rmgit"
    /\ UNCHANGED err

\* lines 87-95: the first clone
Clone1(outcome, entries) ==
    /\ exited = "no"
    /\ pc = "clone1"
    /\ attempts' = Append(attempts, [ref |-> refName, outcome |-> outcome])
    /\ IF outcome = "ok"
       THEN Cloned(entries)
       ELSE /\ IF ShouldRetry(outcome, revision)
               THEN pc' = "clone2" /\ UNCHANGED err
               ELSE Return("error")
            /\ UNCHANGED <<repo, fs>>
    /\ UNCHANGED <<call, git, destinationPath, revision, refName, staging,
                   outputDirFiles, outputIndex, watcher, signals, exited, interrupted, settled>>
    /\ UNCHANGED indexVars

\* lines 97-104: the second clone, the revision taken as a tag name
Clone2(outcome, entries) ==
    /\ exited = "no"
    /\ pc = "clone2"
    /\ refName' = NewTagReferenceName(revision)
    /\ attempts' = Append(attempts, [ref |-> refName', outcome |-> outcome])
    /\ IF outcome = "ok"
       THEN Cloned(entries)
       ELSE /\ Return("error")
            /\ UNCHANGED <<repo, fs>>
    /\ UNCHANGED <<call, git, destinationPath, revision, staging,
                   outputDirFiles, outputIndex, watcher, signals, exited, interrupted, settled>>
    /\ UNCHANGED indexVars

\* lines 107-122: .git is removed (best effort); without a subDir the call is over
RemoveGit ==
    /\ exited = "no"
    /\ pc = "rmgit"
    /\ IF git.SubDir # ""
       THEN pc' = "gitSubDir" /\ UNCHANGED err
       ELSE Return("nil")
    /\ UNCHANGED <<call, git, destinationPath, revision, refName, attempts, staging, repo,
                   outputDirFiles, outputIndex, fs, watcher, signals, exited, interrupted, settled>>
    /\ UNCHANGED indexVars

(***************************************************************************)
(* gitSubDir: the main goroutine.                                          *)
(***************************************************************************)
\* line 133: go StartSignalWatcher(...): the goroutine exists, it has not run
GoStartSignalWatcher ==
    /\ exited = "no"
    /\ pc = "gitSubDir"
    /\ watcher' = [watcher EXCEPT ![call] =
                      [pc |-> "spawned", chan |-> FALSE, dest |-> destinationPath, todo |-> {}]]
    /\ pc' = "open"
    /\ UNCHANGED <<call, git, destinationPath, revision, refName, attempts, err, staging,
                   repo, outputDirFiles, outputIndex, fs, signals, exited, interrupted, settled>>
    /\ UNCHANGED indexVars

\* lines 147-162: Open and Readdir of <srcPath>/<subDir> (ok = FALSE: the
\* subdirectory is not in the clone, or it cannot be read)
OpenSubDir(ok) ==
    /\ exited = "no"
    /\ pc = "open"
    /\ IF ok /\ staging[call] = "present"
       THEN /\ outputDirFiles' = repo
            /\ outputIndex' = 1
            /\ pc' = "copy"
            /\ UNCHANGED err
       ELSE /\ Return("error")
            /\ UNCHANGED <<outputDirFiles, outputIndex>>
    /\ UNCHANGED <<call, git, destinationPath, revision, refName, attempts, staging, repo,
                   fs, watcher, signals, exited, interrupted, settled>>
    /\ UNCHANGED indexVars

\* lines 165-177, 196-214 and 231-237: the loop takes the next entry and creates
\* it in the destination (fs.Create of a file, fs.MkdirAll of a directory)
CopyCreate(ok) ==
    /\ exited = "no"
    /\ pc = "copy"
    /\ outputIndex <= Len(outputDirFiles)
    /\ IF ok /\ staging[call] = "present"
       THEN /\ fs' = [fs EXCEPT ![destinationPath] =
                         WriteEntries(@, <<outputDirFiles[outputIndex]>>, call)]
            /\ pc' = "copying"
            /\ UNCHANGED err
       ELSE /\ Return("error")
            /\ UNCHANGED fs
    /\ UNCHANGED <<call, git, destinationPath, revision, refName, attempts, staging, repo,
                   outputDirFiles, outputIndex, watcher, signals, exited, interrupted, settled>>
    /\ UNCHANGED indexVars

\* lines 216-222 and 239-256: the entry is filled (io.Copy, Stat and Chmod of a
\* file, the children of a directory); this fails when the source or the
\* created entry is gone
CopyFinish(ok) ==
    /\ exited = "no"
    /\ pc = "copying"
    /\ IF /\ ok
          /\ staging[call] = "present"
          /\ <<outputDirFiles[outputIndex], call>> \in fs[destinationPath]
       THEN /\ outputIndex' = outputIndex + 1
            /\ pc' = "copy"
            /\ UNCHANGED err
       ELSE /\ Return("error")
            /\ UNCHANGED outputIndex
    /\ UNCHANGED <<call, git, destinationPath, revision, refName, attempts, staging, repo,
                   outputDirFiles, fs, watcher, signals, exited, interrupted, settled>>
    /\ UNCHANGED indexVars

\* lines 183-188: the loop is over, fs.RemoveAll(srcPath)
RemoveStaging ==
    /\ exited = "no"
    /\ pc = "copy"
    /\ outputIndex > Len(outputDirFiles)
    /\ staging' = [staging EXCEPT ![call] = "removed"]
    /\ Return("nil")
    /\ UNCHANGED <<call, git, destinationPath, revision, refName, attempts, repo,
                   outputDirFiles, outputIndex, fs, watcher, signals, exited, interrupted, settled>>
    /\ UNCHANGED indexVars

(***************************************************************************)
(* StartSignalWatcher: the goroutine of call w, and the signal.            *)
(***************************************************************************)
\* signal.Notify has been called (signal.Stop never is: the function ends in os.Exit)
Registered(w) == watcher[w].pc \notin {"none", "spawned"}

\* gitSubDir of call c has returned nil: the main goroutine has removed the
\* temporary directory (line 188), not the handler (which goes on to exit)
ReturnedNil(c) == staging[c] = "removed" /\ watcher[c].pc # "exit"

\* lines 261-262: the channel is made and registered
Notify(w) ==
    /\ exited = "no"
    /\ watcher[w].pc = "spawned"
    /\ watcher' = [watcher EXCEPT ![w].pc = "waiting"]
    /\ UNCHANGED <<call, pc, git, destinationPath, revision, refName, attempts, err,
                   staging, repo, outputDirFiles, outputIndex, fs, signals, exited,
                   interrupted, settled>>
    /\ UNCHANGED indexVars

\* the copy loop of the current call has copied some of its entries, not all
MidCopy ==
    /\ pc \in {"copy", "copying"}
    /\ 1 < outputIndex
    /\ outputIndex <= Len(outputDirFiles)

\* a termination signal reaches the process: the Go runtime sends it to every
\* registered channel with room (capacity 1), or, if none is registered, takes
\* the default action and the process dies
Signal ==
    /\ exited = "no"
    /\ signals < MaxSignals
    /\ signals' = signals + 1
    /\ interrupted' = IF MidCopy THEN interrupted \cup {call} ELSE interrupted
    /\ settled' = settled \cup
           UNION {{<<c, e[1]>> : e \in {x \in fs[watcher[c].dest] : x[2] = c}} :
                     c \in {k \in Calls : ReturnedNil(k)}}
    /\ IF \E w \in Calls : Registered(w)
       THEN /\ watcher' = [w \in Calls |->
                              IF Registered(w) THEN [watcher[w] EXCEPT !.chan = TRUE]
                              ELSE watcher[w]]
            /\ UNCHANGED exited
       ELSE /\ exited' = "killed"
            /\ UNCHANGED watcher
    /\ UNCHANGED <<call, pc, git, destinationPath, revision, refName, attempts, err,
                   staging, repo, outputDirFiles, outputIndex, fs>>
    /\ UNCHANGED indexVars

\* line 265: receivedSignal := <-signals
Receive(w) ==
    /\ exited = "no"
    /\ watcher[w].pc = "waiting"
    /\ watcher[w].chan
    /\ watcher' = [watcher EXCEPT ![w].pc = "cleanDir", ![w].chan = FALSE]
    /\ UNCHANGED <<call, pc, git, destinationPath, revision, refName, attempts, err,
                   staging, repo, outputDirFiles, outputIndex, fs, signals, exited,
                   interrupted, settled>>
    /\ UNCHANGED indexVars

\* lines 273-284: cleanDir opens the destination and reads its entries
CleanDirRead(w) ==
    /\ exited = "no"
    /\ watcher[w].pc = "cleanDir"
    /\ watcher' = [watcher EXCEPT ![w].pc = "cleanLoop",
                                  ![w].todo = {e[1] : e \in fs[watcher[w].dest]}]
    /\ UNCHANGED <<call, pc, git, destinationPath, revision, refName, attempts, err,
                   staging, repo, outputDirFiles, outputIndex, fs, signals, exited,
                   interrupted, settled>>
    /\ UNCHANGED indexVars

\* lines 287-295: one round of cleanDir's loop, on entry n of what it read
CleanDirRemove(w, n) ==
    /\ exited = "no"
    /\ watcher[w].pc = "cleanLoop"
    /\ n \in watcher[w].todo
    /\ watcher' = [watcher EXCEPT ![w].todo = @ \ {n}]
    /\ fs' = IF n \in leaveBehindFiles
             THEN fs
             ELSE [fs EXCEPT ![watcher[w].dest] = {e \in @ : e[1] # n}]
    /\ UNCHANGED <<call, pc, git, destinationPath, revision, refName, attempts, err,
                   staging, repo, outputDirFiles, outputIndex, signals, exited, interrupted, settled>>
    /\ UNCHANGED indexVars

\* lines 140-143: the handler removes the temporary directory
HandlerRemoveSrc(w) ==
    /\ exited = "no"
    /\ watcher[w].pc = "cleanLoop"
    /\ watcher[w].todo = {}
    /\ watcher' = [watcher EXCEPT ![w].pc = "exit"]
    /\ staging' = [staging EXCEPT ![w] = "removed"]
    /\ UNCHANGED <<call, pc, git, destinationPath, revision, refName, attempts, err,
                   repo, outputDirFiles, outputIndex, fs, signals, exited, interrupted, settled>>
    /\ UNCHANGED indexVars

\* line 268: os.Exit(1)
Exit(w) ==
    /\ exited = "no"
    /\ watcher[w].pc = "exit"
    /\ exited' = "exit1"
    /\ UNCHANGED <<call, pc, git, destinationPath, revision, refName, attempts, err,
                   staging, repo, outputDirFiles, outputIndex, fs, watcher, signals,
                   interrupted, settled>>
    /\ UNCHANGED indexVars

CloneOutcomes == {"ok", "nomatch", "other"}

\* one step of the fetcher, its inputs drawn from the git references G and the
\* directory listings E
FetchStep(G, E) ==
    \/ \E g \in G, d \in Dests, ok \in BOOLEAN : DownloadStart(g, d, ok)
    \/ \E o \in CloneOutcomes, es \in E : Clone1(o, es)
    \/ \E o \in CloneOutcomes, es \in E : Clone2(o, es)
    \/ RemoveGit
    \/ GoStartSignalWatcher
    \/ \E ok \in BOOLEAN : OpenSubDir(ok)
    \/ \E ok \in BOOLEAN : CopyCreate(ok)
    \/ \E ok \in BOOLEAN : CopyFinish(ok)
    \/ RemoveStaging
    \/ Signal
    \/ \E w \in Calls : Notify(w)
    \/ \E w \in Calls : Receive(w)
    \/ \E w \in Calls : CleanDirRead(w)
    \/ \E w \in Calls, n \in Names : CleanDirRemove(w, n)
    \/ \E w \in Calls : HandlerRemoveSrc(w)
    \/ \E w \in Calls : Exit(w)

(***************************************************************************)
(* The index builder: data.                                                *)
(*                                                                         *)
(* A schema.Schema (one catalog entry) is a record: sc holds its eight     *)
(* string fields, Git is nil or holds a number of remotes, Links is a Go   *)
(* map and Resources a Go slice (either may be nil, or empty and not nil). *)
(***************************************************************************)
ScalarFields ==
    {"projectType", "language", "provider", "supportUrl",
     "name", "displayName", "description", "icon"}

\* the fields f of a Schema that are set, to v
Scalars(S, v) == [f \in ScalarFields |-> IF f \in S THEN v ELSE ""]

NilMap == [nil |-> TRUE, kv |-> {}]
NilSlice == [nil |-> TRUE, s |-> <<>>]
GitNil == [nil |-> TRUE, remotes |-> 0]
GitRemotes(n) == [nil |-> FALSE, remotes |-> n]

\* m[key] = value on a Go map that is not nil
MapSet(m, key, value) ==
    [nil |-> FALSE, kv |-> {e \in m.kv : e[1] # key} \cup {<<key, value>>}]

\* append(slice, items...)
SliceAppend(slice, items) ==
    IF Len(items) = 0 THEN slice ELSE [nil |-> FALSE, s |-> slice.s \o items]

\* the zero values of schema.Schema and schema.Version
ZeroSchema ==
    [sc |-> Scalars({}, ""), Tags |-> <<>>, Architectures |-> <<>>, Type |-> "",
     Git |-> GitNil, Links |-> NilMap, Resources |-> NilSlice, Versions |-> <<>>]
ZeroVersion ==
    [Version |-> "", Default |-> FALSE, Git |-> GitNil, Tags |-> <<>>,
     Architectures |-> <<>>, Links |-> NilMap, Resources |-> NilSlice,
     SchemaVersion |-> "", StarterProjects |-> <<>>]

\* a metadata file as yaml.Unmarshal reads it into schema.Devfile: the string
\* fields of metadata, metadata.version, tags and architectures, the schema
\* version and the starter projects; files are the non-directory entries of the
\* directory the file is in
Devfile(S, v, ver, tags, archs) ==
    [sc |-> Scalars(S, v), version |-> ver, tags |-> tags, architectures |-> archs,
     links |-> NilMap, schemaVersion |-> "2.2.0", starterProjects |-> <<"starter">>,
     files |-> <<"devfile.yaml">>]

(***************************************************************************)
(* The index builder: functions.                                           *)
(***************************************************************************)
\* util.go inArray
inArray(arr, value) == \E i \in 1..Len(arr) : arr[i] = value

\* the loops without the inArray test
AppendMissing_NoTest(arr, items) == arr \o items

RECURSIVE AppendMissing(_, _)
\* the loops of parseStackDevfile over a version's tags and architectures:
\* each item is appended to arr unless inArray finds it there
AppendMissing(arr, items) ==
    IF Len(items) = 0 THEN arr
    ELSE AppendMissing(IF inArray(arr, Head(items)) THEN arr ELSE Append(arr, Head(items)),
                       Tail(items))

\* checkForRequiredMetadata: the fields that are not set
checkForRequiredMetadata(d) ==
    {f \in {"name", "displayName", "language", "projectType"} : d.sc[f] = ""}

\* validateStackInfo: the errors it finds (missing: the versions whose folder
\* dirExists does not find)
validateStackInfo(stackInfo, missing) ==
    LET versions == stackInfo.Versions
        defaults == {j \in 1..Len(versions) : versions[j].Default}
    IN  {f \in {"name", "displayName", "icon"} : stackInfo.sc[f] = ""}
        \cup (IF Len(versions) = 0 THEN {"versions"} ELSE {})
        \cup (IF Cardinality(defaults) > 1 THEN {"multiple default versions"} ELSE {})
        \cup (IF \E j \in 1..Len(versions) : versions[j].Git.nil /\ j \in missing
              THEN {"resource folder"} ELSE {})
        \cup (IF defaults = {} THEN {"no default version"} ELSE {})

\* validateIndexComponent: the error it returns, "" for nil
validateIndexComponent(c, componentType) ==
    IF componentType = "stack" /\ c.sc["name"] = "" THEN "name"
    ELSE IF componentType = "stack" /\ c.Links.nil THEN "links"
    ELSE IF componentType = "stack" /\ c.Resources.nil THEN "resources"
    ELSE IF componentType = "sample" /\ c.Git.nil THEN "git"
    ELSE IF componentType = "sample" /\ c.Git.remotes > 1 THEN "remotes"
    ELSE IF c.sc["provider"] = "" THEN "MissingProviderError"
    ELSE IF c.sc["supportUrl"] = "" THEN "MissingSupportUrlError"
    ELSE IF Len(c.Architectures) = 0 THEN "MissingArchError"
    ELSE ""

\* the error types that the callers of validateIndexComponent only print
SoftErrors == {"MissingProviderError", "MissingSupportUrlError", "MissingArchError"}

\* lines 285-293: devfile.Meta marshalled to YAML and read back as a
\* schema.Version
MetaToVersion(d) ==
    [ZeroVersion EXCEPT !.Version = d.version, !.Tags = d.tags,
                        !.Architectures = d.architectures, !.Links = d.links]

\* the entry's string fields set from every metadata file that sets them
BackfillScalars_Overwrite(entry, d) ==
    [entry EXCEPT !.sc = [f \in ScalarFields |->
                             IF d.sc[f] # "" THEN d.sc[f] ELSE entry.sc[f]]]

\* lines 295-322: the entry's string fields that are not set are set from the
\* metadata file
BackfillScalars(entry, d) ==
    [entry EXCEPT !.sc = [f \in ScalarFields |->
                             IF entry.sc[f] = "" THEN d.sc[f] ELSE entry.sc[f]]]

\* line 329: fmt.Sprintf("%s/%s:%s", "devfile-catalog", stackName, version)
SelfLink(stackName, version) == <<"devfile-catalog", "/", stackName, ":", version>>

\* the version without line 324, which keeps the default flag
PopulateVersion_DefaultLost(d, stackName, versionComponent) ==
    LET versionProp == MetaToVersion(d)
    IN  [versionProp EXCEPT
            !.Links = MapSet(versionProp.Links, "self", SelfLink(stackName, versionProp.Version)),
            !.SchemaVersion = d.schemaVersion,
            !.StarterProjects = versionProp.StarterProjects \o d.starterProjects,
            !.Resources = SliceAppend(versionProp.Resources, d.files)]

\* lines 324-334 and 349-359: the version as parseStackDevfile leaves it
PopulateVersion(d, stackName, versionComponent) ==
    LET versionProp == [MetaToVersion(d) EXCEPT !.Default = versionComponent.Default]
    IN  [versionProp EXCEPT
            !.Links = MapSet(versionProp.Links, "self", SelfLink(stackName, versionProp.Version)),
            !.SchemaVersion = d.schemaVersion,
            !.StarterProjects = versionProp.StarterProjects \o d.starterProjects,
            !.Resources = SliceAppend(versionProp.Resources, d.files)]

\* lines 336-346: the version's tags and architectures added to the entry's
MergeTags(entry, version) ==
    [entry EXCEPT !.Tags = AppendMissing(entry.Tags, version.Tags),
                  !.Architectures = AppendMissing(entry.Architectures, version.Architectures)]

\* parseStackDevfile: the error it returns, "" for nil (io: what the file system
\* and the devfile parser answer: "ok", "bothExist", "invalid" or "ioError")
parseStackDevfileError(d, io, frc) ==
    IF io = "bothExist" THEN "both exist"
    ELSE IF ~frc /\ (io \in {"invalid", "ioError"} \/ checkForRequiredMetadata(d) # {})
    THEN "devfile is not valid"
    ELSE IF io = "ioError" THEN "failed to read devfile"
    ELSE ""

\* parseStackDevfile: whether it returns an error
ParseStackDevfileFails(d, io, frc) == parseStackDevfileError(d, io, frc) # ""

\* parseStackDevfile: the entry and the version it leaves when it returns nil
ParsedEntry(d, stackName, versionComponent, entry) ==
    MergeTags(BackfillScalars(entry, d), PopulateVersion(d, stackName, versionComponent))
ParsedVersion(d, stackName, versionComponent) ==
    PopulateVersion(d, stackName, versionComponent)

(***************************************************************************)
(* The index builder: state and steps of GenerateIndexStruct.              *)
(***************************************************************************)
\* missing: the versions of the stack.yaml without git whose folder does not
\* exist; io: what the file system and the parser answered for a metadata file
NoStackYaml == [present |-> FALSE, m |-> ZeroSchema, missing |-> {}]
NoDevfile == [read |-> FALSE, d |-> Devfile({}, "", "", <<>>, <<>>), io |-> ""]
NoReturn == [returned |-> FALSE, index |-> <<>>, err |-> FALSE, msg |-> ""]

InitIndex ==
    /\ force \in BOOLEAN
    /\ ipc = "start"
    /\ stackDir = <<>>
    /\ di = 1
    /\ stackYaml = NoStackYaml
    /\ devfiles = <<>>
    /\ indexComponent = ZeroSchema
    /\ vj = 1
    /\ index = <<>>
    /\ extra = <<>>
    /\ validateSamples = FALSE
    /\ ek = 1
    /\ extraIndex = <<>>
    /\ printed = <<>>
    /\ ret = NoReturn

\* GenerateIndexStruct returns (lines 57, 65, 70); msg: the error, "" for nil
Returns(idx, msg) ==
    /\ ret' = [returned |-> TRUE, index |-> idx, err |-> msg # "", msg |-> msg]
    /\ ipc' = "done"

\* parseDevfileRegistry returns nil and an error; GenerateIndexStruct hands
\* both on (lines 56-58)
RegistryFails(msg) ==
    /\ Returns(<<>>, msg)
    /\ UNCHANGED <<force, stackDir, di, stackYaml, devfiles, indexComponent, vj, index,
                   extra, validateSamples, ek, extraIndex, printed>>

\* lines 53-55 and 124-129: the build starts and reads <registry>/stacks
ReadStacks(listing, ok) ==
    /\ ipc = "start"
    /\ IF ok
       THEN /\ stackDir' = listing
            /\ ipc' = "stackLoop"
            /\ UNCHANGED <<force, di, stackYaml, devfiles, indexComponent, vj, index,
                           extra, validateSamples, ek, extraIndex, printed, ret>>
       ELSE RegistryFails("failed to read stack directory")
    /\ UNCHANGED fetchVars

\* lines 130-133: an entry of stacks/ that is no directory is passed over
SkipFile ==
    /\ ipc = "stackLoop"
    /\ di <= Len(stackDir)
    /\ ~stackDir[di].isDir
    /\ di' = di + 1
    /\ UNCHANGED <<force, ipc, stackDir, stackYaml, devfiles, indexComponent, vj, index,
                   extra, validateSamples, ek, extraIndex, printed, ret>>
    /\ UNCHANGED fetchVars

\* where the build goes after version n of a list of len versions
AfterVersion(n, len) == IF n < len THEN "versions" ELSE "append"

\* lines 134-148: the directory has a stack.yaml, which is read into the entry
\* (ok = FALSE: it cannot be read or parsed) and, without force, validated
ParseStackInfo(m, ok, missing) ==
    /\ ipc = "stackLoop"
    /\ di <= Len(stackDir)
    /\ stackDir[di].isDir
    /\ IF ~ok
       THEN RegistryFails("failed to read stack.yaml")
       ELSE IF ~force /\ validateStackInfo(m, missing) # {}
       THEN RegistryFails("stack.yaml is not valid")
       ELSE /\ indexComponent' = m
            /\ stackYaml' = [present |-> TRUE, m |-> m,
                             missing |-> {j \in missing : /\ j <= Len(m.Versions)
                                                          /\ m.Versions[j].Git.nil}]
            /\ devfiles' = [j \in 1..Len(m.Versions) |-> NoDevfile]
            /\ vj' = 1
            /\ ipc' = AfterVersion(0, Len(m.Versions))
            /\ UNCHANGED <<force, stackDir, di, index, extra, validateSamples, ek,
                           extraIndex, printed, ret>>
    /\ UNCHANGED fetchVars

\* lines 150-160: one round of the version loop on a version without git: its
\* metadata file d is parsed from the version's folder
ParseVersion(d, io) ==
    /\ ipc = "versions"
    /\ indexComponent.Versions[vj].Git.nil
    /\ vj \in stackYaml.missing => io = "ioError"
    /\ IF ParseStackDevfileFails(d, io, force)
       THEN RegistryFails(parseStackDevfileError(d, io, force))
       ELSE /\ indexComponent' =
                   [ParsedEntry(d, stackDir[di].name, indexComponent.Versions[vj],
                                indexComponent)
                       EXCEPT !.Versions[vj] =
                           ParsedVersion(d, stackDir[di].name, indexComponent.Versions[vj])]
            /\ devfiles' = [devfiles EXCEPT ![vj] = [read |-> TRUE, d |-> d, io |-> io]]
            /\ ipc' = AfterVersion(vj, Len(indexComponent.Versions))
            /\ vj' = vj + 1
            /\ UNCHANGED <<force, stackDir, di, stackYaml, index, extra, validateSamples,
                           ek, extraIndex, printed, ret>>
    /\ UNCHANGED fetchVars

\* lines 150-151: one round of the version loop on a version with git
SkipRemoteVersion ==
    /\ ipc = "versions"
    /\ ~indexComponent.Versions[vj].Git.nil
    /\ ipc' = AfterVersion(vj, Len(indexComponent.Versions))
    /\ vj' = vj + 1
    /\ UNCHANGED <<force, stackDir, di, stackYaml, devfiles, indexComponent, index,
                   extra, validateSamples, ek, extraIndex, printed, ret>>
    /\ UNCHANGED fetchVars

\* lines 161-169: the directory has no stack.yaml: its metadata file d is parsed
\* from the directory itself, into one version, the default
ParseLegacyStack(d, io) ==
    /\ ipc = "stackLoop"
    /\ di <= Len(stackDir)
    /\ stackDir[di].isDir
    /\ IF ParseStackDevfileFails(d, io, force)
       THEN RegistryFails(parseStackDevfileError(d, io, force))
       ELSE /\ indexComponent' =
                   [ParsedEntry(d, stackDir[di].name, ZeroVersion, ZeroSchema)
                       EXCEPT !.Versions =
                           <<[ParsedVersion(d, stackDir[di].name, ZeroVersion)
                                 EXCEPT !.Default = TRUE]>>]
            /\ stackYaml' = NoStackYaml
            /\ devfiles' = <<[read |-> TRUE, d |-> d, io |-> io]>>
            /\ vj' = 1
            /\ ipc' = "append"
            /\ UNCHANGED <<force, stackDir, di, index, extra, validateSamples, ek,
                           extraIndex, printed, ret>>
    /\ UNCHANGED fetchVars

\* lines 170 and 244: the entry is a stack and joins the index
AppendStack ==
    /\ ipc = "append"
    /\ index' = Append(index, [indexComponent EXCEPT !.Type = "stack"])
    /\ di' = di + 1
    /\ ipc' = "stackLoop"
    /\ indexComponent' = ZeroSchema
    /\ stackYaml' = NoStackYaml
    /\ devfiles' = <<>>
    /\ vj' = 1
    /\ UNCHANGED <<force, stackDir, extra, validateSamples, ek, extraIndex, printed, ret>>
    /\ UNCHANGED fetchVars

\* lines 247 and 60-70: the stack loop is over and there is no
\* extraDevfileEntries.yaml
ReturnWithoutExtra ==
    /\ ipc = "stackLoop"
    /\ di > Len(stackDir)
    /\ Returns(index, "")
    /\ UNCHANGED <<force, stackDir, di, stackYaml, devfiles, indexComponent, vj, index,
                   extra, validateSamples, ek, extraIndex, printed>>
    /\ UNCHANGED fetchVars

\* the entries of an extraDevfileEntries.yaml in the order of the loops of
\* lines 398-406: the samples, then the stacks
TypedEntries(x) ==
    [i \in 1..Len(x.Samples) |-> [type |-> "sample", entry |-> x.Samples[i]]]
        \o [i \in 1..Len(x.Stacks) |-> [type |-> "stack", entry |-> x.Stacks[i]]]

\* lines 247, 60-66 and 378-397: the stack loop is over and
\* extraDevfileEntries.yaml is read (ok = FALSE: it cannot be read or parsed)
ReadExtra(x, samplesDir, ok) ==
    /\ ipc = "stackLoop"
    /\ di > Len(stackDir)
    /\ IF ok
       THEN /\ extra' = TypedEntries(x)
            /\ validateSamples' = samplesDir
            /\ ek' = 1
            /\ extraIndex' = <<>>
            /\ ipc' = "extraLoop"
            /\ UNCHANGED ret
       ELSE /\ Returns(index, "failed to read extraDevfileEntries.yaml")
            /\ UNCHANGED <<extra, validateSamples, ek, extraIndex>>
    /\ UNCHANGED <<force, stackDir, di, stackYaml, devfiles, indexComponent, vj, index,
                   printed>>
    /\ UNCHANGED fetchVars

\* lines 406-442: one round of the entry loop (sample: what os.Stat and the
\* devfile parser say of the sample's cached devfile: "ok", "missing", "invalid")
ExtraEntry(sample) ==
    /\ ipc = "extraLoop"
    /\ ek <= Len(extra)
    /\ LET devfileType == extra[ek].type
           component == [extra[ek].entry EXCEPT !.Type = devfileType]
           e == validateIndexComponent(component, devfileType)
       IN  IF ~force /\ devfileType = "sample" /\ validateSamples /\ sample # "ok"
           THEN /\ Returns(index, "sample devfile is not valid")
                /\ UNCHANGED <<ek, extraIndex, printed>>
           ELSE IF ~force /\ e # "" /\ e \notin SoftErrors
           THEN /\ Returns(index, "index component is not valid")
                /\ UNCHANGED <<ek, extraIndex, printed>>
           ELSE /\ printed' = IF ~force /\ e \in SoftErrors
                              THEN Append(printed, [entry |-> ek, error |-> e])
                              ELSE printed
                /\ extraIndex' = Append(extraIndex, component)
                /\ ek' = ek + 1
                /\ UNCHANGED <<ipc, ret>>
    /\ UNCHANGED <<force, stackDir, di, stackYaml, devfiles, indexComponent, vj, index,
                   extra, validateSamples>>
    /\ UNCHANGED fetchVars

\* lines 445 and 67-70: the entry loop is over; its index is appended
ReturnWithExtra ==
    /\ ipc = "extraLoop"
    /\ ek > Len(extra)
    /\ index' = index \o extraIndex
    /\ Returns(index', "")
    /\ UNCHANGED <<force, stackDir, di, stackYaml, devfiles, indexComponent, vj,
                   extra, validateSamples, ek, extraIndex, printed>>
    /\ UNCHANGED fetchVars

\* one step of the build, its inputs drawn from the listings L of stacks/, the
\* stack.yaml files M, the metadata files D and the extraDevfileEntries.yaml
\* files X; V are the sets of versions whose folder may be missing
IndexStep(L, M, D, X, V) ==
    \/ \E l \in L, ok \in BOOLEAN : ReadStacks(l, ok)
    \/ SkipFile
    \/ \E m \in M, ok \in BOOLEAN, missing \in V : ParseStackInfo(m, ok, missing)
    \/ \E d \in D, io \in {"ok", "bothExist", "invalid", "ioError"} : ParseVersion(d, io)
    \/ SkipRemoteVersion
    \/ \E d \in D, io \in {"ok", "bothExist", "invalid", "ioError"} : ParseLegacyStack(d, io)
    \/ AppendStack
    \/ ReturnWithoutExtra
    \/ \E x \in X, samplesDir \in BOOLEAN, ok \in BOOLEAN : ReadExtra(x, samplesDir, ok)
    \/ \E sample \in {"ok", "missing", "invalid"} : ExtraEntry(sample)
    \/ ReturnWithExtra

(***************************************************************************)
(* Inputs of the index builder.                                            *)
(***************************************************************************)
\* versions a stack.yaml declares
MaxVersions == 2
\* entries of <registry>/stacks
MaxStacks == 2
\* samples, and stacks, of an extraDevfileEntries.yaml
MaxExtra == 1

VersionIds == <<"1.0.0", "2.0.0", "3.0.0", "4.0.0">>

\* version j of a stack.yaml: a local one (its folder is named by the version)
\* or a remote one (git is set)
ManifestVersion(j, default, remote) ==
    [ZeroVersion EXCEPT !.Version = VersionIds[j], !.Default = default,
                        !.Git = IF remote THEN GitRemotes(1) ELSE GitNil,
                        !.Tags = IF remote THEN <<"t3">> ELSE <<>>]

VersionLists(n) ==
    UNION {{[j \in 1..k |-> ManifestVersion(j, f[j][1], f[j][2])] :
               f \in [1..k -> BOOLEAN \X BOOLEAN]} : k \in 0..n}

Manifest(S, tags, links, resources, versions) ==
    [ZeroSchema EXCEPT !.sc = Scalars(S, "m"), !.Tags = tags, !.Links = links,
                       !.Resources = resources, !.Versions = versions]

SomeLinks == [nil |-> FALSE, kv |-> {<<"self", <<"devfile-catalog", "/", "x", ":", "latest">>>>}]
EmptyMap == [nil |-> FALSE, kv |-> {}]
SomeResources == [nil |-> FALSE, s |-> <<"devfile.yaml">>]

ManifestFields == {"name", "displayName", "icon"}
RequiredMetadata == {"name", "displayName", "language", "projectType"}

DirEntry(name, isDir) == [name |-> name, isDir |-> isDir]

\* --- merging the versions of one stack: every shape of stack.yaml, metadata
\* files that differ in the fields they set, in their tags and architectures,
\* and in metadata.version
MergeListings ==
    {<<DirEntry("nodejs", TRUE)>>, <<DirEntry("README.md", FALSE), DirEntry("nodejs", TRUE)>>}
MergeManifests ==
    {Manifest(S, <<>>, NilMap, NilSlice, vs) :
        S \in {ManifestFields, {}, ScalarFields}, vs \in VersionLists(MaxVersions)}
    \cup {Manifest(ManifestFields, <<"t0", "t1">>, SomeLinks, SomeResources, vs) :
             vs \in VersionLists(MaxVersions)}
MergeDevfiles ==
    {Devfile(S, v, "1.0.0", <<"t1">>, <<"amd64">>) :
        S \in {ScalarFields, RequiredMetadata, ScalarFields \ RequiredMetadata, {}},
        v \in {"a", "b"}}
    \cup {Devfile(ScalarFields, "a", "1.0.0", t, ar) :
             t \in {<<>>, <<"t2", "t1">>, <<"t1", "t1">>}, ar \in {<<>>, <<"arm64">>}}
    \cup {Devfile(ScalarFields, "a", ver, <<"t1">>, <<"amd64">>) :
             ver \in {"", "2.0.0", "9.9.9"}}
Sample(S, remote, archs) ==
    [ZeroSchema EXCEPT !.sc = Scalars(S, "s"), !.Git = remote, !.Architectures = archs]
ExtraStack(S, links, resources, archs) ==
    [ZeroSchema EXCEPT !.sc = Scalars(S, "x"), !.Links = links, !.Resources = resources,
                       !.Architectures = archs]
MergeExtras ==
    {[Samples |-> <<Sample(ScalarFields, GitRemotes(1), <<"amd64">>)>>,
      Stacks |-> <<ExtraStack(ScalarFields, SomeLinks, SomeResources, <<"amd64">>)>>]}

\* --- the whole build: listings of stacks/, a few stacks, every kind of
\* supplemental entry
IndexListings ==
    DistinctSeqs({DirEntry("nodejs", TRUE), DirEntry("go", TRUE), DirEntry("README.md", FALSE)},
                 MaxStacks)
IndexManifests ==
    {Manifest(ManifestFields, <<>>, NilMap, NilSlice, <<ManifestVersion(1, TRUE, FALSE)>>),
     Manifest(ManifestFields, <<>>, SomeLinks, SomeResources,
              <<ManifestVersion(1, TRUE, FALSE)>>),
     Manifest(ManifestFields, <<>>, NilMap, NilSlice, <<ManifestVersion(1, FALSE, FALSE)>>),
     Manifest(ManifestFields, <<>>, NilMap, NilSlice,
              <<ManifestVersion(1, TRUE, TRUE), ManifestVersion(2, FALSE, FALSE)>>)}
IndexDevfiles ==
    {Devfile(ScalarFields, "a", "1.0.0", <<"t1">>, <<"amd64">>),
     Devfile(RequiredMetadata, "a", "1.0.0", <<>>, <<>>),
     Devfile({}, "", "", <<>>, <<>>)}
SampleKinds ==
    {Sample(ScalarFields, GitRemotes(1), <<"amd64">>),
     Sample(ScalarFields \ {"provider"}, GitRemotes(1), <<>>),
     Sample(ScalarFields \ {"provider"}, GitNil, <<"amd64">>),
     Sample(ScalarFields, GitRemotes(2), <<"amd64">>)}
StackKinds ==
    {ExtraStack(ScalarFields, SomeLinks, SomeResources, <<"amd64">>),
     ExtraStack(ScalarFields \ {"supportUrl"}, SomeLinks, SomeResources, <<>>),
     ExtraStack(ScalarFields \ {"supportUrl"}, NilMap, SomeResources, <<"amd64">>),
     ExtraStack(ScalarFields, EmptyMap, SomeResources, <<"amd64">>),
     ExtraStack(ScalarFields \ {"name"}, SomeLinks, SomeResources, <<"amd64">>)}
SeqsUpTo(S, n) == UNION {[1..k -> S] : k \in 0..n}
IndexExtras ==
    [Samples : SeqsUpTo(SampleKinds, MaxExtra), Stacks : SeqsUpTo(StackKinds, MaxExtra)]

(***************************************************************************)
(* Specifications.                                                         *)
(***************************************************************************)
vars == <<fetchVars, indexVars>>

\* the fetcher at rest, the build at rest
IdleFetch == InitFetch /\ fs = [d \in Dests |-> {}]
IdleIndex == InitIndex /\ force = FALSE

\* reference resolution and the clone protocol: every kind of revision, with
\* and without a subDir, over repositories of one entry
CloneRefs == [Revision : Revisions, SubDir : {"", "sub"}]
CloneListings == {<<"a">>}
InitClone == InitFetch /\ IdleIndex
NextClone == FetchStep(CloneRefs, CloneListings)
SpecClone == InitClone /\ [][NextClone]_vars

\* subdirectory extraction: every listing of the subdirectory, the revision a
\* branch or tag name
ExtractRefs == [Revision : {<<"m", "a", "i", "n">>}, SubDir : {"sub"}]
ExtractListings == DistinctSeqs(Names, MaxEntries)
InitExtract == InitFetch /\ IdleIndex
NextExtract == FetchStep(ExtractRefs, ExtractListings)
SpecExtract == InitExtract /\ [][NextExtract]_vars

\* the build of one stack directory from its stack.yaml and metadata files
NextMerge ==
    IndexStep(MergeListings, MergeManifests, MergeDevfiles, MergeExtras,
              SUBSET (1..MaxVersions))
InitMerge == InitIndex /\ IdleFetch
SpecMerge == InitMerge /\ [][NextMerge]_vars

\* the build of a registry with its supplemental entries
NextIndex ==
    IndexStep(IndexListings, IndexManifests, IndexDevfiles, IndexExtras, {{}, {1}})
InitBuild == InitIndex /\ IdleFetch
SpecIndex == InitBuild /\ [][NextIndex]_vars

(***************************************************************************)
(* Claims about the remote stack fetcher.                                  *)
(***************************************************************************)
\* C1: when the process has exited on a termination signal that was delivered
\* after a proper, non-empty subset of the subdirectory's entries had been
\* copied, the destination holds no entry written by that copy and the
\* temporary directory of that extraction no longer exists.
C1_InterruptedCopyLeavesNothing ==
    exited # "no" =>
        \A c \in interrupted :
            /\ \A e \in fs[watcher[c].dest] : e[2] # c
            /\ staging[c] # "present"

\* C2: gitSubDir writes no entry into the destination before the signal
\* handler of that extraction is registered (signal.Notify has been called).
C2_HandlerRegisteredBeforeFirstWrite ==
    \A c \in Calls :
        (watcher[c].pc # "none" /\ \E e \in fs[watcher[c].dest] : e[2] = c)
            => Registered(c)

\* C3: a clone for a commit-hash revision is requested with the reference
\* name of a call without revision (the empty name, which selects the default
\* branch); a clone for any other non-empty revision is first requested with
\* the revision as a branch name.
C3_HashRevisionClonesDefaultBranch ==
    Len(attempts) >= 1 =>
        /\ IsHash(git.Revision) => attempts[1].ref = <<>>
        /\ (git.Revision # <<>> /\ ~IsHash(git.Revision))
               => attempts[1].ref = <<"refs/heads/">> \o git.Revision

\* C4: there are at most two clone attempts; a second one is made exactly when
\* the first failed for want of a matching reference and a revision that is
\* not a commit hash was given, and it names the revision as a tag; any other
\* failure of the first attempt, and any failure of the second, ends the call
\* with an error.
C4_CloneRetryProtocol ==
    LET n == Len(attempts)
        given == git.Revision # <<>> /\ ~IsHash(git.Revision)
        retry == n >= 1 /\ attempts[1].outcome = "nomatch" /\ given
    IN  /\ n <= 2
        /\ n = 2 => retry /\ attempts[2].ref = <<"refs/tags/">> \o git.Revision
        /\ retry => n = 2 \/ pc = "clone2"
        /\ (n = 1 /\ attempts[1].outcome # "ok" /\ ~retry) => pc = "idle" /\ err = "error"
        /\ (n = 2 /\ attempts[2].outcome # "ok") => pc = "idle" /\ err = "error"

\* a first clone that found no branch of the name, and a second one, of the
\* tag, that succeeded
C4_RetriedAsTag ==
    /\ Len(attempts) = 2
    /\ attempts[1].outcome = "nomatch"
    /\ attempts[2].outcome = "ok"
    /\ pc = "rmgit"

(***************************************************************************)
(* Claims about the index builder.                                         *)
(***************************************************************************)
\* the entry of the current stack directory is complete: the next step appends
\* it to the index
EntryBuilt == ipc = "append"

\* the versions of the entry being built that were populated from a local
\* metadata file, in the order they were processed
Populated == {j \in 1..Len(devfiles) : devfiles[j].read}

SetMin(S) == CHOOSE x \in S : \A y \in S : x <= y

NoDuplicates(arr) == \A i, j \in 1..Len(arr) : i # j => arr[i] # arr[j]

\* C5: a stack.yaml that passes the structural checks and declares N versions
\* gives an entry with N versions in the order of the stack.yaml (a remote one
\* as declared, a local one with the content of its metadata file), exactly one
\* of them the default; and at no point of the version loop does a version's
\* default flag differ from the one the stack.yaml declares.
C5_VersionsAndDefaultKept ==
    (stackYaml.present /\ ipc \in {"versions", "append"}) =>
        LET declared == stackYaml.m.Versions
            built == indexComponent.Versions
        IN  /\ Len(built) = Len(declared)
            /\ \A j \in 1..Len(declared) : built[j].Default = declared[j].Default
            /\ (EntryBuilt /\ validateStackInfo(stackYaml.m, {}) = {}) =>
                   /\ Cardinality({j \in 1..Len(built) : built[j].Default}) = 1
                   /\ \A j \in 1..Len(declared) :
                          IF declared[j].Git.nil
                          THEN /\ devfiles[j].read
                               /\ built[j].Tags = devfiles[j].d.tags
                               /\ built[j].SchemaVersion = devfiles[j].d.schemaVersion
                          ELSE built[j] = declared[j]

\* a valid stack.yaml of two local versions, the second the default, built
\* without force
C5_TwoVersionsBuilt ==
    /\ EntryBuilt
    /\ ~force
    /\ stackYaml.present
    /\ Len(indexComponent.Versions) = 2
    /\ Populated = {1, 2}
    /\ ~indexComponent.Versions[1].Default
    /\ indexComponent.Versions[2].Default

\* the value of field f in the first version processed that sets it
FirstSupplied(f) ==
    LET with == {j \in Populated : devfiles[j].d.sc[f] # ""}
    IN  IF with = {} THEN "" ELSE devfiles[SetMin(with)].d.sc[f]

\* C7 as claimed: when all versions of a stack are merged, each of the entry's
\* string fields has the value of the first version processed that sets it.
C7_FirstVersionWins ==
    EntryBuilt => \A f \in ScalarFields : indexComponent.sc[f] = FirstSupplied(f)

\* C7, amended: at every point of the merge each of the entry's string fields
\* has the value the stack.yaml sets, if it sets one, and else the value of the
\* first version processed that sets it; so no later version overrides a field
\* that is set.
C7_ManifestThenFirstVersionWins ==
    ipc \in {"versions", "append"} =>
        \A f \in ScalarFields :
            indexComponent.sc[f] =
                IF stackYaml.present /\ stackYaml.m.sc[f] # ""
                THEN stackYaml.m.sc[f]
                ELSE FirstSupplied(f)

\* two versions set the provider differently and the first one's stays
C7_SecondVersionIgnored ==
    /\ EntryBuilt
    /\ Populated = {1, 2}
    /\ devfiles[1].d.sc["provider"] # ""
    /\ devfiles[2].d.sc["provider"] # ""
    /\ devfiles[1].d.sc["provider"] # devfiles[2].d.sc["provider"]
    /\ indexComponent.sc["provider"] = devfiles[1].d.sc["provider"]

\* the tags (architectures) of all versions of the entry being built
AllVersionTags == UNION {Range(indexComponent.Versions[j].Tags) :
                            j \in 1..Len(indexComponent.Versions)}
AllVersionArchitectures ==
    UNION {Range(indexComponent.Versions[j].Architectures) :
              j \in 1..Len(indexComponent.Versions)}

\* C8 as claimed: the entry's tags and architectures have no duplicates and
\* are, as sets, the unions of the tags and architectures of all its versions.
C8_TagsAreUnionOfAllVersions ==
    EntryBuilt =>
        /\ NoDuplicates(indexComponent.Tags)
        /\ NoDuplicates(indexComponent.Architectures)
        /\ Range(indexComponent.Tags) = AllVersionTags
        /\ Range(indexComponent.Architectures) = AllVersionArchitectures

\* what the stack.yaml declares for the entry itself (nothing without one)
DeclaredTags == IF stackYaml.present THEN stackYaml.m.Tags ELSE <<>>
DeclaredArchitectures == IF stackYaml.present THEN stackYaml.m.Architectures ELSE <<>>

RECURSIVE MergeInOrder(_, _, _)
\* arr after the lists of the metadata files are merged into it in the given
\* order of versions (field: "tags" or "architectures")
MergeInOrder(arr, order, field) ==
    IF Len(order) = 0 THEN arr
    ELSE MergeInOrder(AppendMissing(arr, devfiles[Head(order)].d[field]), Tail(order), field)

\* the orders in which the populated versions can be processed
Orders == {o \in [1..Cardinality(Populated) -> Populated] :
              \A i, j \in 1..Cardinality(Populated) : i # j => o[i] # o[j]}

\* what was appended to arr after its first n elements
AppendedAfter(arr, n) == [i \in 1..(Len(arr) - n) |-> arr[n + i]]

\* C8, amended: the entry's tags (architectures) are what the stack.yaml
\* declares for the entry followed by tags of the versions populated from local
\* metadata files, each appended once and none that is already there; as a set
\* they are the union of the declared ones and those of the populated versions,
\* whatever the order in which the versions are processed.
C8_TagsAreUnionOfPopulatedVersions ==
    EntryBuilt =>
        LET tags == indexComponent.Tags
            archs == indexComponent.Architectures
            newTags == AppendedAfter(tags, Len(DeclaredTags))
            newArchs == AppendedAfter(archs, Len(DeclaredArchitectures))
        IN  /\ Len(tags) >= Len(DeclaredTags)
            /\ tags = DeclaredTags \o newTags
            /\ NoDuplicates(newTags)
            /\ Range(newTags) \cap Range(DeclaredTags) = {}
            /\ Range(tags) = Range(DeclaredTags)
                   \cup UNION {Range(devfiles[j].d.tags) : j \in Populated}
            /\ Len(archs) >= Len(DeclaredArchitectures)
            /\ archs = DeclaredArchitectures \o newArchs
            /\ NoDuplicates(newArchs)
            /\ Range(newArchs) \cap Range(DeclaredArchitectures) = {}
            /\ Range(archs) = Range(DeclaredArchitectures)
                   \cup UNION {Range(devfiles[j].d.architectures) : j \in Populated}
            /\ \A o \in Orders :
                   /\ Range(MergeInOrder(DeclaredTags, o, "tags")) = Range(tags)
                   /\ Range(MergeInOrder(DeclaredArchitectures, o, "architectures"))
                          = Range(archs)

\* two versions with overlapping tags, the second with a tag of its own
C8_OverlappingTagsMerged ==
    /\ EntryBuilt
    /\ Populated = {1, 2}
    /\ devfiles[1].d.tags = <<"t1">>
    /\ devfiles[2].d.tags = <<"t2", "t1">>
    /\ DeclaredTags = <<>>
    /\ indexComponent.Tags = <<"t1", "t2">>

\* C9: the self link of every version populated from a local metadata file is
\* "devfile-catalog/<stack directory>:<version>", the version being the one the
\* stack.yaml declares for it and, without a stack.yaml, the declared version
\* or else "latest".
C9_SelfLinkNamesDeclaredVersion ==
    ipc \in {"versions", "append"} =>
        \A j \in Populated :
            LET id == IF stackYaml.present THEN stackYaml.m.Versions[j].Version
                      ELSE IF devfiles[j].d.version # "" THEN devfiles[j].d.version
                      ELSE "latest"
            IN  <<"self", <<"devfile-catalog", "/", stackDir[di].name, ":", id>>>>
                    \in indexComponent.Versions[j].Links.kv

\* a Go map or slice that is nil or has no element
EmptyLinks(c) == c.Links.nil \/ c.Links.kv = {}
EmptyResources(c) == c.Resources.nil \/ Len(c.Resources.s) = 0

\* C6: in a catalog that a build without force returns without error, every
\* entry of type stack has a name, links and resources (so a stack without
\* links or resources fails the build).
C6_StacksHaveNameLinksResources ==
    (ret.returned /\ ~ret.err /\ ~force) =>
        \A i \in 1..Len(ret.index) :
            ret.index[i].Type = "stack" =>
                /\ ret.index[i].sc["name"] # ""
                /\ ~EmptyLinks(ret.index[i])
                /\ ~EmptyResources(ret.index[i])

\* a violation of an entry that is not one of the three that are only reported
HardViolation(c) ==
    \/ c.Type = "stack" /\ (c.sc["name"] = "" \/ EmptyLinks(c) \/ EmptyResources(c))
    \/ c.Type = "sample" /\ (c.Git.nil \/ c.Git.remotes > 1)

\* C10: without force, no entry with a hard violation is ever added to the
\* catalog (the build aborts at it, with or without a soft violation beside),
\* and every supplemental entry the loop has passed was appended, its soft
\* violation, if it has one, printed.
C10_SoftReportedHardAborts ==
    ~force =>
        /\ \A i \in 1..Len(index) : ~HardViolation(index[i])
        /\ \A i \in 1..Len(extraIndex) : ~HardViolation(extraIndex[i])
        /\ ipc = "extraLoop" =>
               /\ Len(extraIndex) = ek - 1
               /\ \A k \in 1..(ek - 1) :
                      validateIndexComponent(extraIndex[k], extraIndex[k].Type) \in SoftErrors
                          => \E p \in 1..Len(printed) : printed[p].entry = k

\* the errors of the structural validation: of the stack.yaml (line 146), of
\* the two metadata files side by side (line 255), of the metadata (265, 270)
StructuralErrors == {"stack.yaml is not valid", "both exist", "devfile is not valid"}

\* C11: with force, the build never ends with a structural validation error,
\* and a missing version folder does not end it either; without force, no
\* entry is built from a stack.yaml that fails validateStackInfo (shape,
\* defaults, version folders), from metadata without the required fields or
\* from a directory with both metadata files.
C11_ForceSkipsStructuralErrors ==
    /\ (force /\ ret.returned /\ ret.err) =>
           /\ ret.msg \notin StructuralErrors
           /\ (ret.msg = "failed to read devfile" /\ stackYaml.present)
                  => vj \notin stackYaml.missing
    /\ (~force /\ ipc \in {"versions", "append"}) =>
           /\ stackYaml.present
                  => validateStackInfo(stackYaml.m, stackYaml.missing) = {}
           /\ \A j \in Populated :
                  /\ checkForRequiredMetadata(devfiles[j].d) = {}
                  /\ devfiles[j].io = "ok"

\* C12: when GenerateIndexStruct ends with an error, whether from the walk of
\* the stack directories or from the supplemental entries, the catalog it
\* returns has no entry.
C12_NoPartialCatalog ==
    (ret.returned /\ ret.err) => Len(ret.index) = 0

(***************************************************************************)
(* Claims about the fetcher after a call.                                  *)
(***************************************************************************)
\* C13: an entry that a completed extraction (gitSubDir returned nil) had in
\* its destination when a termination signal was delivered is still there
\* afterwards: the watcher of that extraction removes nothing from it.
C13_LateSignalSparesCompletedCopy ==
    \A p \in settled : \E e \in fs[watcher[p[1]].dest] : e[1] = p[2]

\* the calls of downloadRemoteStack that have returned
ReturnedCalls == {c \in 1..call : c < call \/ pc = "idle"}

\* C14: once a call of downloadRemoteStack has returned, with nil or with an
\* error of the clone or of the copy, the temporary directory it made for its
\* subDir does not exist.
C14_StagingGoneAfterReturn ==
    \A c \in ReturnedCalls : staging[c] # "present"

====
